---- MODULE Spec2Model ----
(***************************************************************************)
(* MA Method 2 trading bot: the RiskManager position life cycle            *)
(* (risk_manager.py) and the TradingBot poll loop that drives it           *)
(* (gate_ma_main.py, ma_main.py).                                          *)
(*                                                                         *)
(* Numbers.  Prices and ATR values are integers (quote-currency ticks),    *)
(* sizes are integers in units of 1/SizeScale of the base asset, percents  *)
(* are integers.  The inputs are drawn so that every division the code     *)
(* performs is exact on them; floating-point rounding is not modelled.     *)
(* Python's None is the empty tuple, a value v that may be None is <<v>>.  *)
(* A dictionary is a record; a missing key is a missing field, and         *)
(* reading it raises KeyError.                                             *)
(***************************************************************************)
EXTENDS Integers, Sequences, FiniteSets, TLC

VARIABLES
    config,            \* RiskManager / TradingBot configuration (fixed after construction)
    position,          \* position dictionary held by a direct client of RiskManager
    last,              \* record of the last RiskManager call made by that client
    bot,               \* which TradingBot: "gate" (gate_ma_main.py) or "bitmart" (ma_main.py)
    df,                \* TradingBot.df: latest indicator-annotated candle, or NoData
    current_position,  \* TradingBot.current_position
    trade_history,     \* TradingBot.trade_history
    orders,            \* entry orders accepted by the exchange (live mode)
    cycle              \* record of the last run_once call

vars == <<config, position, last, bot, df, current_position, trade_history, orders, cycle>>

rmVars == <<position, last>>
botVars == <<bot, df, current_position, trade_history, orders, cycle>>

(***************************************************************************)
(* Bounds of the model                                                     *)
(***************************************************************************)
MaxPriceSteps == 8
MaxAtrSteps == 1
MaxHistory == 2
MaxOrders == 3
MaxWindow == 22

Prices == {90 + 5 * i : i \in 0..MaxPriceSteps}
Atrs == {5 * i : i \in 0..MaxAtrSteps}
EntryPrices == {100, 110}
\* 88803 = 3^3 * 11 * 13 * 23: the allocation divides exactly by every price used,
\* and every size computed from it is a multiple of 10 units
Allocations == {-1, 0, 88803}
\* the bots open "long" positions only (spot trading); "short" is never passed
Sides == {"long"}

\* sl_atr_multiplier is held in 1/MultScale, so that the default 1.5 is 15
MultScale == 10

\* sizes are counted in 1/SizeScale of the base asset; min_size = 0.0001 is one unit
SizeScale == 10000
min_size == 1

(***************************************************************************)
(* Python values                                                           *)
(***************************************************************************)
None == << >>
Some(v) == <<v>>
Val(o) == o[1]
\* truth value of an Optional[float]: None and 0 are false
Truthy(o) == o # None /\ Val(o) # 0
Max(a, b) == IF a >= b THEN a ELSE b
Min(a, b) == IF a <= b THEN a ELSE b
Abs(a) == IF a >= 0 THEN a ELSE 0 - a
NoPosition == [k \in {} |-> 0]
Has(d, k) == k \in DOMAIN d
\* dict.get(k, default)
Get(d, k, default) == IF k \in DOMAIN d THEN d[k] ELSE default
\* a quotient the code holds as a float: numerator and denominator, undivided
Ratio(num, den) == [num |-> num, den |-> den]

(***************************************************************************)
(* RiskManager (risk_manager.py)                                           *)
(***************************************************************************)
calculate_position_size(entry_price, max_usdt_allocation) ==
    IF max_usdt_allocation <= 0
    THEN min_size
    ELSE Max((max_usdt_allocation * SizeScale) \div entry_price, min_size)

calculate_stop_loss(entry_price, atr, side) ==
    LET sl_distance == (atr * config.sl_atr_multiplier) \div MultScale
    IN  IF side = "long" THEN entry_price - sl_distance ELSE entry_price + sl_distance

calculate_take_profits(entry_price, stop_loss, side) ==
    LET risk_distance == Abs(entry_price - stop_loss)
    IN  [tp1 |-> IF side = "long" THEN entry_price + risk_distance * config.tp1_rr
                                  ELSE entry_price - risk_distance * config.tp1_rr,
         tp1_percent |-> config.tp1_percent,
         tp2 |-> IF side = "long" THEN entry_price + risk_distance * config.tp2_rr
                                  ELSE entry_price - risk_distance * config.tp2_rr,
         tp2_percent |-> config.tp2_percent,
         risk_distance |-> risk_distance]

\* mutant: an existing trailing stop is replaced by the new level (no max)
calculate_trailing_stop_follows(entry_price, current_price, atr, side, current_trailing_stop) ==
    LET new_trailing_stop == current_price - atr * config.trailing_atr_multiplier
    IN  IF current_trailing_stop = None
        THEN IF current_price > entry_price
             THEN Max(new_trailing_stop, entry_price)
             ELSE entry_price
        ELSE new_trailing_stop

\* mutant: the first trailing stop is not floored at the entry price
calculate_trailing_stop_unfloored(entry_price, current_price, atr, side, current_trailing_stop) ==
    LET new_trailing_stop == current_price - atr * config.trailing_atr_multiplier
    IN  IF current_trailing_stop = None
        THEN new_trailing_stop
        ELSE Max(new_trailing_stop, Val(current_trailing_stop))

calculate_trailing_stop(entry_price, current_price, atr, side, current_trailing_stop) ==
    LET trailing_distance == atr * config.trailing_atr_multiplier
    IN  IF side = "long"
        THEN LET new_trailing_stop == current_price - trailing_distance
             IN  IF current_trailing_stop = None
                 THEN IF current_price > entry_price
                      THEN Max(new_trailing_stop, entry_price)
                      ELSE entry_price
                 ELSE Max(new_trailing_stop, Val(current_trailing_stop))
        ELSE LET new_trailing_stop == current_price + trailing_distance
             IN  IF current_trailing_stop = None
                 THEN IF current_price < entry_price
                      THEN Min(new_trailing_stop, entry_price)
                      ELSE entry_price
                 ELSE Min(new_trailing_stop, Val(current_trailing_stop))

\* mutant: the stop is hit only strictly below it
check_stop_loss_hit_strict(current_price, stop_loss, side) ==
    IF side = "long" THEN current_price < stop_loss ELSE current_price > stop_loss

check_stop_loss_hit(current_price, stop_loss, side) ==
    IF side = "long" THEN current_price <= stop_loss ELSE current_price >= stop_loss

check_take_profit_hit(current_price, take_profit, side) ==
    IF side = "long" THEN current_price >= take_profit ELSE current_price <= take_profit

create_position(entry_price, atr, side, max_usdt_allocation) ==
    LET stop_loss == calculate_stop_loss(entry_price, atr, side)
        position_size == calculate_position_size(entry_price, max_usdt_allocation)
        take_profits == calculate_take_profits(entry_price, stop_loss, side)
    IN  [entry_price |-> entry_price,
         stop_loss |-> stop_loss,
         position_size |-> position_size,
         side |-> side,
         tp1 |-> Some(take_profits.tp1),
         tp1_percent |-> take_profits.tp1_percent,
         tp2 |-> Some(take_profits.tp2),
         tp2_percent |-> take_profits.tp2_percent,
         trailing_stop |-> None,
         remaining_size |-> position_size,
         atr |-> atr,
         risk_distance |-> take_profits.risk_distance]

\* keys update_position reads on a cycle that gets past the stop-loss check
UpdateKeys ==
    {"tp1", "tp1_percent", "tp2", "tp2_percent", "position_size",
     "remaining_size", "entry_price", "trailing_stop"}

\* update_position raises KeyError: the dictionary lacks a key the cycle reads
update_position_raises(p, current_price) ==
    \/ ~Has(p, "side")
    \/ ~Has(p, "stop_loss")
    \/ /\ ~check_stop_loss_hit(current_price, p.stop_loss, p.side)
       /\ ~(UpdateKeys \subseteq DOMAIN p)

tp1_armed(p) == Truthy(p.tp1) /\ p.tp1_percent > 0
tp2_armed(p) == Truthy(p.tp2) /\ p.tp2_percent > 0

\* size released by a take-profit: position_size * (percent / 100)
close_size(p, percent) == (p.position_size * percent) \div 100

\* mutant: TP1 does not move the stop to breakeven
check_tp1_keeps_stop(st, current_price) ==
    LET p == st.position
    IN  IF Truthy(p.tp1) /\ p.tp1_percent > 0
           /\ check_take_profit_hit(current_price, Val(p.tp1), p.side)
        THEN [position |-> [p EXCEPT !.remaining_size = @ - (p.position_size * p.tp1_percent) \div 100,
                                     !.tp1 = None,
                                     !.tp1_percent = 0],
              action |-> "tp1"]
        ELSE st

\* mutant: TP1 releases the TP2 percentage
check_tp1_releases_tp2_part(st, current_price) ==
    LET p == st.position
    IN  IF Truthy(p.tp1) /\ p.tp1_percent > 0
           /\ check_take_profit_hit(current_price, Val(p.tp1), p.side)
        THEN [position |-> [p EXCEPT !.remaining_size = @ - (p.position_size * p.tp2_percent) \div 100,
                                     !.tp1 = None,
                                     !.tp1_percent = 0,
                                     !.stop_loss = p.entry_price],
              action |-> "tp1"]
        ELSE st

\* lines 270-281: the TP1 check, on the state [position, action]
check_tp1(st, current_price) ==
    LET p == st.position
    IN  IF tp1_armed(p) /\ check_take_profit_hit(current_price, Val(p.tp1), p.side)
        THEN [position |-> [p EXCEPT !.remaining_size = @ - close_size(p, p.tp1_percent),
                                     !.tp1 = None,
                                     !.tp1_percent = 0,
                                     !.stop_loss = p.entry_price],
              action |-> "tp1"]
        ELSE st

\* mutant: TP2 overrides the action TP1 set in the same cycle
check_tp2_overrides(st, current_price) ==
    LET p == st.position
    IN  IF Truthy(p.tp2) /\ p.tp2_percent > 0
           /\ check_take_profit_hit(current_price, Val(p.tp2), p.side)
        THEN [position |-> [p EXCEPT !.remaining_size = @ - (p.position_size * p.tp2_percent) \div 100,
                                     !.tp2 = None,
                                     !.tp2_percent = 0],
              action |-> "tp2"]
        ELSE st

\* mutant: the TP2 portion is taken from what remains, not from the original size
check_tp2_of_remaining(st, current_price) ==
    LET p == st.position
    IN  IF Truthy(p.tp2) /\ p.tp2_percent > 0
           /\ check_take_profit_hit(current_price, Val(p.tp2), p.side)
        THEN [position |-> [p EXCEPT !.remaining_size = @ - (@ * p.tp2_percent) \div 100,
                                     !.tp2 = None,
                                     !.tp2_percent = 0],
              action |-> IF st.action = "none" THEN "tp2" ELSE st.action]
        ELSE st

\* mutant: TP2 releases its part and stays armed
check_tp2_stays_armed(st, current_price) ==
    LET p == st.position
    IN  IF Truthy(p.tp2) /\ p.tp2_percent > 0
           /\ check_take_profit_hit(current_price, Val(p.tp2), p.side)
        THEN [position |-> [p EXCEPT !.remaining_size = @ - (p.position_size * p.tp2_percent) \div 100],
              action |-> IF st.action = "none" THEN "tp2" ELSE st.action]
        ELSE st

\* lines 283-292: the TP2 check
check_tp2(st, current_price) ==
    LET p == st.position
    IN  IF tp2_armed(p) /\ check_take_profit_hit(current_price, Val(p.tp2), p.side)
        THEN [position |-> [p EXCEPT !.remaining_size = @ - close_size(p, p.tp2_percent),
                                     !.tp2 = None,
                                     !.tp2_percent = 0],
              action |-> IF st.action = "none" THEN "tp2" ELSE st.action]
        ELSE st

\* mutant: the trailing stop is updated whatever remains
update_trailing_always(st, current_price, atr) ==
    LET p == st.position
        trailing_stop ==
            calculate_trailing_stop(p.entry_price, current_price, atr, p.side, p.trailing_stop)
    IN  [position |-> [p EXCEPT !.trailing_stop = Some(trailing_stop)],
         action |-> IF /\ check_stop_loss_hit(current_price, trailing_stop, p.side)
                       /\ st.action = "none"
                    THEN "trailing_stop"
                    ELSE st.action]

\* lines 294-308: the trailing stop of the remaining position
update_trailing(st, current_price, atr) ==
    LET p == st.position
    IN  IF p.remaining_size > 0
        THEN LET trailing_stop ==
                     calculate_trailing_stop(p.entry_price, current_price, atr,
                                             p.side, p.trailing_stop)
             IN  [position |-> [p EXCEPT !.trailing_stop = Some(trailing_stop)],
                  action |-> IF /\ check_stop_loss_hit(current_price, trailing_stop, p.side)
                                /\ st.action = "none"
                             THEN "trailing_stop"
                             ELSE st.action]
        ELSE st

\* mutant: the stop-loss is decided after the take-profit and trailing checks ran
update_position_stop_checked_last(p, current_price, atr) ==
    LET st == update_trailing(
                  check_tp2(check_tp1([position |-> p, action |-> "none"], current_price),
                            current_price),
                  current_price, atr)
    IN  IF check_stop_loss_hit(current_price, p.stop_loss, p.side)
        THEN [position |-> st.position, action |-> "stop_loss"]
        ELSE st

\* update_position: (updated_position, action); "none" is Python's None
update_position(p, current_price, atr) ==
    IF check_stop_loss_hit(current_price, p.stop_loss, p.side)
    THEN [position |-> p, action |-> "stop_loss"]
    ELSE update_trailing(
             check_tp2(check_tp1([position |-> p, action |-> "none"], current_price),
                       current_price),
             current_price, atr)

\* calculate_pnl raises KeyError: position["risk_amount"] is read unconditionally
calculate_pnl_raises(p) ==
    \E k \in {"entry_price", "remaining_size", "side", "risk_amount", "stop_loss"} : ~Has(p, k)

calculate_pnl(p, current_price) ==
    LET pnl == IF p.side = "long"
               THEN (current_price - p.entry_price) * p.remaining_size
               ELSE (p.entry_price - current_price) * p.remaining_size
        risk == Abs(p.entry_price - p.stop_loss)
        reward == Abs(current_price - p.entry_price)
    IN  [pnl |-> pnl,
         pnl_percent |-> IF p.risk_amount > 0 THEN (pnl \div p.risk_amount) * 100 ELSE 0,
         rr_achieved |-> IF risk > 0 THEN reward \div risk ELSE 0,
         remaining_size |-> p.remaining_size]

(***************************************************************************)
(* TradingStrategy (strategy.py)                                           *)
(***************************************************************************)
\* indicator periods (TradingStrategy.__init__ defaults); a window shorter than the
\* longest of them is insufficient
ema_long_period == 21
rsi_length == 14
atr_period == 14
volume_ma_period == 20

\* a warm-up that waits for the shortest period only
warmup_shortest ==
    Min(Min(ema_long_period, rsi_length), Min(atr_period, volume_ma_period))

warmup == Max(Max(ema_long_period, rsi_length), Max(atr_period, volume_ma_period))

ZeroLeg == [price |-> 0, position_size |-> 0, stop_loss |-> 0, take_profit |-> 0,
            risk_reward |-> 0]

\* an EMA alignment that lets the three levels touch
ema_condition_touching(latest) ==
    latest.close >= latest.ema_short /\ latest.ema_short >= latest.ema_long

\* the four entry conditions on the latest candle
ema_condition(latest) == latest.close > latest.ema_short /\ latest.ema_short > latest.ema_long
\* an RSI test that shuts out the two ends of the range
rsi_condition_exclusive(latest) == config.rsi_min < latest.rsi /\ latest.rsi < config.rsi_max
rsi_condition(latest) == config.rsi_min <= latest.rsi /\ latest.rsi <= config.rsi_max
adx_condition(latest) == latest.adx >= config.adx_threshold
volume_condition(latest) ==
    IF config.use_volume_filter /\ Has(latest, "volume")
    THEN Get(latest, "volume", 0) >= Get(latest, "volume_ma", 1)
    ELSE TRUE

\* volume / volume_ma as logged with the fourth condition (0 when it is not computed)
volume_ratio(latest) ==
    IF config.use_volume_filter /\ Has(latest, "volume") /\ Get(latest, "volume_ma", 1) > 0
    THEN Ratio(Get(latest, "volume", 0), Get(latest, "volume_ma", 1))
    ELSE Ratio(0, 1)

\* a stop measured from the first entry level instead of the second
entry_stop_loss_from_short(latest) ==
    latest.ema_short - (latest.atr * config.sl_atr_multiplier) \div MultScale

\* the stop shared by both legs: below ema_long by atr * sl_atr_multiplier (line 268)
entry_stop_loss(latest) ==
    latest.ema_long - (latest.atr * config.sl_atr_multiplier) \div MultScale

\* a leg whose target is always set by the first leg's ratio
entry_leg_tp1_rr(price, position_size, stop_loss, rr) ==
    [price |-> price,
     position_size |-> position_size,
     stop_loss |-> stop_loss,
     take_profit |-> price + (price - stop_loss) * config.tp1_rr,
     risk_reward |-> rr]

\* one entry leg: its target is its own risk times its risk:reward ratio above its price
entry_leg(price, position_size, stop_loss, rr) ==
    [price |-> price,
     position_size |-> position_size,
     stop_loss |-> stop_loss,
     take_profit |-> price + (price - stop_loss) * rr,
     risk_reward |-> rr]

\* legs sized by dividing the allocation by the second leg's price, not by the close
entry_legs_sized_at_ema_long(latest) ==
    LET max_position_size == (config.max_usdt_per_trade * SizeScale) \div latest.ema_long
        stop_loss == entry_stop_loss(latest)
    IN  [entry_1 |-> entry_leg(latest.ema_short,
                               (max_position_size * config.entry_1_percent) \div 100,
                               stop_loss, config.tp1_rr),
         entry_2 |-> entry_leg(latest.ema_long,
                               (max_position_size * config.entry_2_percent) \div 100,
                               stop_loss, config.tp2_rr)]

\* the two entry legs of a triggered signal (lines 245-288)
entry_legs(latest) ==
    LET max_position_size == (config.max_usdt_per_trade * SizeScale) \div latest.close
        entry_1_price == latest.ema_short
        entry_2_price == latest.ema_long
        stop_loss == entry_stop_loss(latest)
    IN  [entry_1 |-> entry_leg(entry_1_price,
                               (max_position_size * config.entry_1_percent) \div 100,
                               stop_loss, config.tp1_rr),
         entry_2 |-> entry_leg(entry_2_price,
                               (max_position_size * config.entry_2_percent) \div 100,
                               stop_loss, config.tp2_rr)]

\* a signal evaluator that never questions the allocation
max_usdt_invalid_never == FALSE

\* a signal evaluator that remembers it was called and rejects every later signal
max_usdt_invalid_after_call == config.max_usdt_per_trade <= 0 \/ last.op # "init"

\* the validation of max_usdt_per_trade on a signal (line 241)
max_usdt_invalid == config.max_usdt_per_trade <= 0

\* check_long_entry: [signal, details]
check_long_entry(d) ==
    IF d.n < warmup
    THEN [signal |-> FALSE, details |-> [reason |-> "Insufficient data"]]
    ELSE LET entry_signal == /\ ema_condition(d)
                             /\ rsi_condition(d)
                             /\ adx_condition(d)
                             /\ volume_condition(d)
             base == [price |-> d.close, ema_short |-> d.ema_short, ema_long |-> d.ema_long,
                      rsi |-> d.rsi, adx |-> d.adx, atr |-> d.atr,
                      volume |-> Get(d, "volume", 0), volume_ma |-> Get(d, "volume_ma", 0),
                      ema_aligned |-> ema_condition(d),
                      rsi_valid |-> rsi_condition(d),
                      adx_valid |-> adx_condition(d),
                      volume_valid |-> volume_condition(d),
                      volume_ratio |-> volume_ratio(d),
                      signal |-> entry_signal]
         IN  IF entry_signal
             THEN IF max_usdt_invalid
                  THEN [signal |-> FALSE,
                        details |-> base @@ [reason |->
                                                 "MAX_USDT_PER_TRADE must be > 0 in .env file"]]
                  ELSE [signal |-> TRUE,
                        details |-> base @@ entry_legs(d)
                                         @@ [reason |-> "All entry conditions met"]]
             ELSE [signal |-> FALSE,
                   details |-> base @@ [entry_1 |-> ZeroLeg, entry_2 |-> ZeroLeg,
                                        reason |-> "Trade analysis not available"]]

\* a refinement that moves Entry 1 down to a live price below ema_short
recalculate_with_live_price_reprices(d, details, live_price) ==
    [entry_1 |-> [details.entry_1 EXCEPT !.price = Min(live_price, d.ema_short)],
     entry_status |-> "repriced", live_price |-> live_price,
     last_candle_price |-> d.close] @@ details

\* check_exit_by_time: exit once the position was held for max_candles candles
check_exit_by_time(entry_candle_index, current_candle_index, max_candles) ==
    LET candles_held == current_candle_index - entry_candle_index
    IN  candles_held >= max_candles

\* recalculate_with_live_price: annotates the details with the live price
recalculate_with_live_price(d, details, live_price) ==
    LET change_x100 == (live_price - d.close) * 100
        warned == Abs(change_x100) > 5 * d.close
        status == IF live_price < d.ema_short THEN "in entry zone"
                  ELSE IF live_price * 100 < d.ema_short * 102 THEN "near entry zone"
                  ELSE "above entry zone"
        noted == [entry_status |-> status, live_price |-> live_price,
                  last_candle_price |-> d.close,
                  price_change_pct |-> Ratio(change_x100, d.close)] @@ details
    IN  IF warned THEN [warning |-> "High volatility"] @@ noted ELSE noted

(***************************************************************************)
(* TradingBot (gate_ma_main.py, ma_main.py)                                *)
(***************************************************************************)
\* size-weighted average of a field of the two legs (plain mean when both sizes are 0)
weighted(entry_1, entry_2, f) ==
    LET total_size == entry_1.position_size + entry_2.position_size
    IN  IF total_size > 0
        THEN (entry_1[f] * entry_1.position_size + entry_2[f] * entry_2.position_size)
                 \div total_size
        ELSE (entry_1[f] + entry_2[f]) \div 2

\* gate_ma_main.py: the flat position simulate_entry and execute_entry store
\* (entry_time, simulated and order_ids, which nothing reads back, are left out)
gate_position(side, details) ==
    LET entry_1 == details.entry_1
        entry_2 == details.entry_2
        total_size == entry_1.position_size + entry_2.position_size
    IN  [side |-> side,
         entry_price |-> weighted(entry_1, entry_2, "price"),
         stop_loss |-> weighted(entry_1, entry_2, "stop_loss"),
         position_size |-> total_size,
         remaining_size |-> total_size,
         tp1 |-> Some(weighted(entry_1, entry_2, "take_profit")),
         tp1_percent |-> config.tp1_percent,
         tp2 |-> None,
         tp2_percent |-> 0,
         trailing_stop |-> None]

\* ma_main.py: the nested position simulate_entry and execute_entry store
bitmart_position(side, details) ==
    [side |-> side,
     entry_1 |-> [price |-> details.entry_1.price,
                  size |-> details.entry_1.position_size,
                  stop_loss |-> details.entry_1.stop_loss,
                  take_profit |-> details.entry_1.take_profit],
     entry_2 |-> [price |-> details.entry_2.price,
                  size |-> details.entry_2.position_size,
                  stop_loss |-> details.entry_2.stop_loss,
                  take_profit |-> details.entry_2.take_profit]]

entry_position(which, side, details) ==
    IF which = "gate" THEN gate_position(side, details) ELSE bitmart_position(side, details)

\* a get_live_price that passes on whatever number the ticker holds
get_live_price_unchecked(ticker) ==
    IF ticker # None THEN ticker ELSE None

\* get_live_price: the ticker's answer, None when missing or not positive
get_live_price(ticker) ==
    IF ticker # None /\ Val(ticker) > 0 THEN ticker ELSE None

(***************************************************************************)
(* A direct client of RiskManager: builds a position with create_position  *)
(* and feeds it prices.                                                    *)
(***************************************************************************)
Configs ==
    [sl_atr_multiplier : {15, 20},
     tp1_rr : {1},
     tp1_percent : {30, 100},
     tp2_rr : {2},
     tp2_percent : {50, 70},
     trailing_atr_multiplier : {2},
     dry_run : BOOLEAN,
     max_usdt_per_trade : Allocations,
     entry_1_percent : {30},
     entry_2_percent : {70},
     rsi_min : {40},
     rsi_max : {70},
     adx_threshold : {25},
     use_volume_filter : BOOLEAN,
     max_candles_hold : {2}]

\* what fetch_market_data leaves in self.df: the latest closed candle of a full window
BotCandles ==
    [n : {200}, close : Prices, ema_short : {120}, ema_long : {100}, rsi : {55},
     adx : {30}, atr : Atrs, volume : {25000}, volume_ma : {20000}]

\* what the exchange answers to a ticker request and to an order
Tickers == {None, Some(-120), Some(0), Some(120)}
OrderAnswers == {"accepted", "rejected", "error"}

NoCall == [op |-> "init"]
NoCycle == [outcome |-> "init", action |-> "none"]
NoData == [k \in {} |-> 0]

BotIdle ==
    /\ bot = "gate"
    /\ df = NoData
    /\ current_position = NoPosition
    /\ trade_history = << >>
    /\ orders = << >>
    /\ cycle = NoCycle

InitRM ==
    /\ config \in {c \in Configs : /\ c.dry_run
                                   /\ c.max_usdt_per_trade > 0
                                   /\ c.use_volume_filter
                                   /\ c.sl_atr_multiplier = 20}
    /\ position = NoPosition
    /\ last = NoCall
    /\ BotIdle

RmCreatePosition ==
    \E entry_price \in EntryPrices, atr \in Atrs, side \in Sides,
       alloc \in {a \in Allocations : a > 0} :
        /\ position' = create_position(entry_price, atr, side, alloc)
        /\ last' = [op |-> "create_position"]
        /\ UNCHANGED <<config, botVars>>

RmUpdatePosition ==
    \E current_price \in Prices, atr \in Atrs :
        /\ position # NoPosition
        /\ IF update_position_raises(position, current_price)
           THEN /\ position' = position
                /\ last' = [op |-> "update_position", pre |-> position,
                            current_price |-> current_price, atr |-> atr,
                            raised |-> TRUE, action |-> "none"]
           ELSE LET out == update_position(position, current_price, atr)
                IN  /\ position' = out.position
                    /\ last' = [op |-> "update_position", pre |-> position,
                                current_price |-> current_price, atr |-> atr,
                                raised |-> FALSE, action |-> out.action]
        /\ UNCHANGED <<config, botVars>>

\* the client holds a position built the way the gate bot builds it from a signal
RmEntryPosition ==
    \E d \in BotCandles :
        /\ check_long_entry(d).signal
        /\ position' = gate_position("long", check_long_entry(d).details)
        /\ last' = [op |-> "entry_position"]
        /\ UNCHANGED <<config, botVars>>

\* the client asks for the PnL of the position it holds
RmCalculatePnl ==
    \E current_price \in Prices :
        /\ position # NoPosition
        /\ last' = IF calculate_pnl_raises(position)
                   THEN [op |-> "calculate_pnl", pre |-> position,
                         current_price |-> current_price, raised |-> TRUE]
                   ELSE [op |-> "calculate_pnl", pre |-> position,
                         current_price |-> current_price, raised |-> FALSE,
                         result |-> calculate_pnl(position, current_price)]
        /\ UNCHANGED <<config, position, botVars>>

NextRM == RmCreatePosition \/ RmEntryPosition \/ RmUpdatePosition \/ RmCalculatePnl

SpecRM == InitRM /\ [][NextRM]_vars

(***************************************************************************)
(* Properties of one update cycle of RiskManager.update_position           *)
(* (specification SpecRM).  `last` holds the position before the cycle,    *)
(* the inputs and the emitted action; `position` is the position after it. *)
(***************************************************************************)
\* the last step was an update cycle on a long position that returned normally
LongCycle ==
    /\ last.op = "update_position"
    /\ ~last.raised
    /\ last.pre.side = "long"

StopHolds == last.current_price <= last.pre.stop_loss
TP1Holds == tp1_armed(last.pre) /\ last.current_price >= Val(last.pre.tp1)
TP2Holds == tp2_armed(last.pre) /\ last.current_price >= Val(last.pre.tp2)
\* the trailing level is price - atr * trailing_atr_multiplier
TrailingLevel == last.current_price - last.atr * config.trailing_atr_multiplier
\* the trailing stop was updated in the cycle: no stop-loss, something remains
TrailingUpdated == ~StopHolds /\ position.remaining_size > 0
TrailingHolds ==
    /\ TrailingUpdated
    /\ position.trailing_stop # None
    /\ last.current_price <= Val(position.trailing_stop)
Released(percent) == (last.pre.position_size * percent) \div 100

\* C1: in a cycle on a long position with price <= stop_loss the emitted action is
\* stop_loss, whatever tp1, tp2 and the trailing stop are.
C1_StopLossPriority ==
    (LongCycle /\ StopHolds) => last.action = "stop_loss"

\* C1 witness: the price satisfies the stop-loss and the armed TP1 in the same cycle
C1_Witness ==
    /\ LongCycle
    /\ StopHolds
    /\ TP1Holds
    /\ last.action = "stop_loss"

\* C2: a cycle emits one action or none, the first in the order stop_loss, tp1, tp2,
\* trailing_stop whose condition holds in the cycle.
C2_StrictPriority ==
    LongCycle =>
        /\ last.action \in {"none", "stop_loss", "tp1", "tp2", "trailing_stop"}
        /\ last.action = IF StopHolds THEN "stop_loss"
                         ELSE IF TP1Holds THEN "tp1"
                         ELSE IF TP2Holds THEN "tp2"
                         ELSE IF TrailingHolds THEN "trailing_stop"
                         ELSE "none"

\* C2 witness: TP1, TP2 and the trailing condition all hold and tp1 is emitted
C2_Witness ==
    /\ LongCycle
    /\ ~StopHolds
    /\ TP1Holds
    /\ TP2Holds
    /\ TrailingHolds
    /\ last.action = "tp1"

\* C5: with tp1 armed, price > stop_loss and price >= tp1, the cycle disarms tp1,
\* moves stop_loss to entry_price and emits tp1.
C5_TP1Transition ==
    (LongCycle /\ TP1Holds /\ last.current_price > last.pre.stop_loss) =>
        /\ position.tp1 = None
        /\ position.stop_loss = last.pre.entry_price
        /\ last.action = "tp1"

\* C5 witness: TP1 fires on a position whose stop was below the entry price
C5_Witness ==
    /\ LongCycle
    /\ TP1Holds
    /\ last.current_price > last.pre.stop_loss
    /\ last.pre.stop_loss < last.pre.entry_price
    /\ position.stop_loss = last.pre.entry_price

C7_TP2Transition ==
    (LongCycle /\ TP2Holds /\ ~StopHolds) =>
        /\ position.tp2 = None
        /\ position.tp2_percent = 0
        /\ position.remaining_size =
               last.pre.remaining_size
                   - (IF TP1Holds THEN Released(last.pre.tp1_percent) ELSE 0)
                   - Released(last.pre.tp2_percent)
        /\ last.action = IF TP1Holds THEN "tp1" ELSE "tp2"

\* C7 witness: TP2 fires after TP1 had already released its part
C7_Witness ==
    /\ LongCycle
    /\ TP2Holds
    /\ ~StopHolds
    /\ last.pre.tp1 = None
    /\ last.pre.remaining_size < last.pre.position_size
    /\ last.action = "tp2"

\* C8: an update cycle on a long position never lowers a trailing stop that was set.
C8_TrailingMonotonic ==
    (LongCycle /\ last.pre.trailing_stop # None) =>
        /\ position.trailing_stop # None
        /\ Val(position.trailing_stop) >= Val(last.pre.trailing_stop)

\* C8 witness: the new trailing level lies below the stored trailing stop
C8_Witness ==
    /\ LongCycle
    /\ ~StopHolds
    /\ last.pre.trailing_stop # None
    /\ position.remaining_size > 0
    /\ TrailingLevel < Val(last.pre.trailing_stop)

\* C9: a trailing stop that is first set is entry_price if price <= entry_price and
\* max(price - atr * trailing_multiplier, entry_price) otherwise; a stored trailing
\* stop of a long position is never below entry_price.
C9_BreakevenFloor ==
    /\ (LongCycle /\ last.pre.trailing_stop = None /\ position.trailing_stop # None) =>
           Val(position.trailing_stop) =
               IF last.current_price <= last.pre.entry_price
               THEN last.pre.entry_price
               ELSE Max(TrailingLevel, last.pre.entry_price)
    /\ (LongCycle /\ last.pre.trailing_stop # None /\ TrailingUpdated) =>
           Val(position.trailing_stop) = Max(TrailingLevel, Val(last.pre.trailing_stop))
    /\ (position # NoPosition /\ position.side = "long" /\ position.trailing_stop # None) =>
           Val(position.trailing_stop) >= position.entry_price

\* C9 witness: the first trailing stop of a position in profit is held at the entry price
C9_Witness ==
    /\ LongCycle
    /\ last.pre.trailing_stop = None
    /\ last.current_price > last.pre.entry_price
    /\ TrailingLevel < last.pre.entry_price
    /\ position.trailing_stop = Some(last.pre.entry_price)

\* C10: the trailing stop changes only in a cycle that leaves remaining_size > 0 after
\* the TP checks; trailing_stop is emitted exactly when, after that update, price <=
\* the stored level and neither stop_loss, tp1 nor tp2 was emitted; with
\* remaining_size <= 0 the trailing_stop field is left as it was.
C10_TrailingEmission ==
    LongCycle =>
        /\ (position.trailing_stop # last.pre.trailing_stop) => TrailingUpdated
        /\ (last.action = "trailing_stop") <=>
               (TrailingHolds /\ ~StopHolds /\ ~TP1Holds /\ ~TP2Holds)
        /\ (position.remaining_size <= 0) =>
               position.trailing_stop = last.pre.trailing_stop

\* C10 witness: nothing remains after the take-profits, and the trailing stop is kept
\* although the new level lies above it
C10_Witness ==
    /\ LongCycle
    /\ ~StopHolds
    /\ position.remaining_size <= 0
    /\ last.pre.remaining_size > 0
    /\ last.pre.trailing_stop # None
    /\ TrailingLevel > Val(last.pre.trailing_stop)
    /\ position.trailing_stop = last.pre.trailing_stop

(***************************************************************************)
(* The poll loop: one action per way run_once can go.  update_equity only  *)
(* refreshes self.equity, which no step of the loop reads; it is left out.  *)
(***************************************************************************)
\* close_position: [current_position, trade_history] after the call
close_position(pos, history, reason, exit_price) ==
    IF pos = NoPosition
    THEN [current_position |-> pos, trade_history |-> history]
    ELSE IF calculate_pnl_raises(pos) \/ ~Has(pos, "position_size")
         THEN \* the exception is logged; the position is not cleared
              [current_position |-> pos, trade_history |-> history]
         ELSE LET pnl_info == calculate_pnl(pos, exit_price)
              IN  [current_position |-> NoPosition,
                   trade_history |->
                       Append(history,
                              [side |-> pos.side, entry_price |-> pos.entry_price,
                               exit_price |-> exit_price, size |-> pos.position_size,
                               pnl |-> pnl_info.pnl, pnl_percent |-> pnl_info.pnl_percent,
                               rr_achieved |-> pnl_info.rr_achieved, reason |-> reason])]

\* manage_position: [current_position, trade_history, action, raised] after the call
manage_position(pos, history, d) ==
    IF update_position_raises(pos, d.close)
    THEN [current_position |-> pos, trade_history |-> history,
          action |-> "none", raised |-> TRUE]
    ELSE LET out == update_position(pos, d.close, d.atr)
             closed == close_position(out.position, history,
                                      IF out.action = "stop_loss"
                                      THEN "Stop loss hit" ELSE "Trailing stop hit",
                                      d.close)
         IN  IF out.action \in {"stop_loss", "trailing_stop"}
             THEN closed @@ [action |-> out.action, raised |-> FALSE]
             ELSE [current_position |-> out.position, trade_history |-> history,
                   action |-> out.action, raised |-> FALSE]

Init ==
    /\ config \in {c \in Configs : /\ c.use_volume_filter
                                   /\ c.max_usdt_per_trade >= 0
                                   /\ c.tp2_percent = 70
                                   /\ c.sl_atr_multiplier = 20}
    /\ bot \in {"gate", "bitmart"}
    /\ df = NoData
    /\ current_position = NoPosition
    /\ trade_history = << >>
    /\ orders = << >>
    /\ cycle = NoCycle
    /\ position = NoPosition
    /\ last = NoCall

\* a run_once that does not return after a failed fetch and manages the open position
\* on the candle of the last good fetch
RunOnceFetchFailed_goes_on ==
    /\ cycle' = [outcome |-> "fetch_failed", action |-> "none"]
    /\ IF current_position # NoPosition /\ Has(df, "close")
       THEN LET res == manage_position(current_position, trade_history, df)
            IN  /\ current_position' = res.current_position
                /\ trade_history' = res.trade_history
       ELSE UNCHANGED <<current_position, trade_history>>
    /\ UNCHANGED <<config, rmVars, bot, df, orders>>

\* the count of candles held, kept in `cycle` while the cycles since entry hit neither
\* a stop nor a target, up to max_candles_hold; the bots keep no such count
held_since_entry(action) ==
    IF Has(cycle, "held") /\ action = "none" /\ cycle.held < config.max_candles_hold
    THEN [held |-> cycle.held + 1]
    ELSE [k \in {} |-> 0]

\* fetch_market_data fails: run_once returns at once
RunOnceFetchFailed ==
    /\ cycle' = [outcome |-> "fetch_failed", action |-> "none"]
    /\ UNCHANGED <<config, rmVars, bot, df, current_position, trade_history, orders>>

\* a run_once that manages the open position and then looks for an entry in the same
\* cycle, opening a new position when the signal triggers
RunOnceManage_then_entry ==
    /\ current_position # NoPosition
    /\ Len(trade_history) < MaxHistory
    /\ \E d \in BotCandles, ticker \in Tickers :
        LET res == manage_position(current_position, trade_history, d)
            live_price == get_live_price(ticker)
            sig == check_long_entry(d)
        IN  /\ df' = d
            /\ trade_history' = res.trade_history
            /\ current_position' =
                   IF live_price # None /\ sig.signal
                   THEN entry_position(bot, "long",
                            recalculate_with_live_price(d, sig.details, Val(live_price)))
                   ELSE res.current_position
            /\ cycle' = [outcome |-> IF res.raised THEN "manage_raised" ELSE "managed",
                         action |-> res.action, ticker |-> ticker]
    /\ UNCHANGED <<config, rmVars, bot, orders>>

\* a position is open: run_once manages it
RunOnceManage ==
    /\ current_position # NoPosition
    /\ Len(trade_history) < MaxHistory
    /\ \E d \in BotCandles :
        LET res == manage_position(current_position, trade_history, d)
        IN  /\ df' = d
            /\ current_position' = res.current_position
            /\ trade_history' = res.trade_history
            /\ cycle' = [outcome |-> IF res.raised THEN "manage_raised" ELSE "managed",
                         action |-> res.action] @@ held_since_entry(res.action)
    /\ UNCHANGED <<config, rmVars, bot, orders>>

\* no position is open and no live price is to be had: the signal check is skipped
RunOnceNoLivePrice ==
    /\ current_position = NoPosition
    /\ \E d \in BotCandles, ticker \in Tickers :
        /\ get_live_price(ticker) = None
        /\ df' = d
        /\ cycle' = [outcome |-> "no_live_price", action |-> "none", ticker |-> ticker]
    /\ UNCHANGED <<config, rmVars, bot, current_position, trade_history, orders>>

\* no position is open and check_long_entry gives no signal
RunOnceNoSignal ==
    /\ current_position = NoPosition
    /\ \E d \in BotCandles, ticker \in Tickers :
        /\ get_live_price(ticker) # None
        /\ ~check_long_entry(d).signal
        /\ df' = d
        /\ cycle' = [outcome |-> "no_signal", action |-> "none", ticker |-> ticker]
    /\ UNCHANGED <<config, rmVars, bot, current_position, trade_history, orders>>

\* a check_entry_signal without its "already in position" return
RunOnceSimulateEntry_any_cycle ==
    /\ config.dry_run
    /\ \E d \in BotCandles, ticker \in Tickers :
        LET live_price == get_live_price(ticker)
            sig == check_long_entry(d)
            details == recalculate_with_live_price(d, sig.details, Val(live_price))
        IN  /\ live_price # None
            /\ sig.signal
            /\ df' = d
            /\ current_position' = entry_position(bot, "long", details)
            /\ cycle' = [outcome |-> "entered", action |-> "none", ticker |-> ticker,
                         held |-> 0]
    /\ UNCHANGED <<config, rmVars, bot, trade_history, orders>>

\* no position is open, the signal triggers, dry run: simulate_entry
RunOnceSimulateEntry ==
    /\ current_position = NoPosition
    /\ config.dry_run
    /\ \E d \in BotCandles, ticker \in Tickers :
        LET live_price == get_live_price(ticker)
            sig == check_long_entry(d)
            details == recalculate_with_live_price(d, sig.details, Val(live_price))
        IN  /\ live_price # None
            /\ sig.signal
            /\ df' = d
            /\ current_position' = entry_position(bot, "long", details)
            /\ cycle' = [outcome |-> "entered", action |-> "none", ticker |-> ticker,
                         held |-> 0]
    /\ UNCHANGED <<config, rmVars, bot, trade_history, orders>>

\* no position is open, the signal triggers, live mode: execute_entry places Entry 1,
\* then Entry 2 if Entry 1 was accepted, and stores the position if both were
RunOnceExecuteEntry ==
    /\ current_position = NoPosition
    /\ ~config.dry_run
    /\ Len(orders) + 2 <= MaxOrders
    /\ \E d \in BotCandles, ticker \in Tickers, r1 \in OrderAnswers, r2 \in OrderAnswers :
        LET live_price == get_live_price(ticker)
            sig == check_long_entry(d)
            details == recalculate_with_live_price(d, sig.details, Val(live_price))
            placed == IF r1 # "accepted" THEN << >>
                      ELSE IF r2 # "accepted" THEN <<"entry1">>
                      ELSE <<"entry1", "entry2">>
        IN  /\ live_price # None
            /\ sig.signal
            /\ df' = d
            /\ orders' = orders \o placed
            /\ IF Len(placed) = 2
               THEN /\ current_position' = entry_position(bot, "long", details)
                    /\ cycle' = [outcome |-> "entered", action |-> "none",
                                 ticker |-> ticker, held |-> 0]
               ELSE /\ cycle' = [outcome |-> "entry_failed", action |-> "none",
                                    ticker |-> ticker]
                    /\ UNCHANGED current_position
    /\ UNCHANGED <<config, rmVars, bot, trade_history>>

Next ==
    \/ RunOnceFetchFailed
    \/ RunOnceManage
    \/ RunOnceNoLivePrice
    \/ RunOnceNoSignal
    \/ RunOnceSimulateEntry
    \/ RunOnceExecuteEntry

Spec == Init /\ [][Next]_vars

(***************************************************************************)
(* Properties of the poll loop (specification Spec).  `cycle` holds the    *)
(* way the last run_once went, the action update_position emitted and, in  *)
(* a cycle that looked for an entry, what the ticker request answered.     *)
(***************************************************************************)
\* C3: whenever a cycle emits stop_loss or trailing_stop, the position is closed and
\* current_position is none at the end of that cycle.
C3_StopClosesPosition ==
    cycle.action \in {"stop_loss", "trailing_stop"} => current_position = NoPosition

\* C4: a position created at entry execution has remaining_size = position_size and
\* both tp1 and tp2 armed.
C4_EntryOpensArmed ==
    cycle.outcome = "entered" =>
        /\ UpdateKeys \subseteq DOMAIN current_position
        /\ current_position.remaining_size = current_position.position_size
        /\ tp1_armed(current_position)
        /\ tp2_armed(current_position)

\* C11: whenever a position's remaining_size reaches zero through partial exits, the
\* position is destroyed: the bot holds no position whose remaining_size is zero or
\* less, so none is passed into another update cycle.
C11_ExhaustedPositionDestroyed ==
    (current_position # NoPosition /\ Has(current_position, "remaining_size")) =>
        current_position.remaining_size > 0

\* C12: at most one position is open at any time: a cycle that creates a position, and
\* every cycle in which the poll loop runs the Signal Evaluator, starts with no position.
C12_SinglePosition ==
    [][cycle'.outcome \in {"no_signal", "entered", "entry_failed"} =>
           current_position = NoPosition]_vars

C12_Witness ==
    /\ cycle.outcome = "entered"
    /\ current_position # NoPosition
    /\ Len(orders) = 2

\* C13: a cycle whose market-data fetch fails runs neither the signal evaluation nor the
\* position update: the current position (every field), the trade history and the
\* orders placed are the same after the cycle as before it.
C13_SkippedCycleFrame ==
    [][cycle'.outcome = "fetch_failed" =>
           /\ current_position' = current_position
           /\ trade_history' = trade_history
           /\ orders' = orders]_vars

\* a failed fetch while a partly exited position is open
C13_Witness ==
    /\ cycle.outcome = "fetch_failed"
    /\ Has(current_position, "remaining_size")
    /\ current_position.remaining_size < current_position.position_size

\* C14: when no position is open and the live price is unavailable (the ticker request
\* fails or its value is missing, zero or negative), the cycle skips the signal check:
\* no order is placed, no entry is simulated and no position is created, whatever the
\* candle says.
C14_NoLivePriceSkips ==
    [][(/\ current_position = NoPosition
        /\ Has(cycle', "ticker")
        /\ (cycle'.ticker = None \/ Val(cycle'.ticker) <= 0)) =>
           /\ cycle'.outcome = "no_live_price"
           /\ current_position' = NoPosition
           /\ orders' = orders
           /\ trade_history' = trade_history]_vars

\* the live price came back as 0 on a candle that meets every entry condition
C14_Witness ==
    /\ cycle.outcome = "no_live_price"
    /\ cycle.ticker = Some(0)
    /\ check_long_entry(df).signal
    /\ current_position = NoPosition

(***************************************************************************)
(* A direct client of TradingStrategy: evaluates check_long_entry on a     *)
(* candle window and refines a triggered signal with a live price.  Prices *)
(* are counted in quarters of a quote unit, so that 150 is 600, 148 is     *)
(* 592, 145 is 580, an ATR of 2.5 is 10 and 141.25 is 565.                 *)
(***************************************************************************)
\* the windows: an empty frame, and frames of warmup - 1 to MaxWindow candles whose
\* latest candle sits on, just inside and just outside every threshold
SignalWindows ==
    {[n |-> 0]} \cup
    [n : (warmup - 1)..MaxWindow, close : {592, 600, 750}, ema_short : {592, 600},
     ema_long : {580, 600}, rsi : {39, 40, 70, 71}, adx : {24, 25}, atr : {0, 10},
     volume : {15000, 20000, 25000}, volume_ma : {20000}]

\* live prices around ema_short, ema_short * 1.02 and close * 1.05
LivePrices == {570, 592, 600, 612, 650}

InitSignal ==
    /\ config \in {c \in Configs : /\ c.dry_run
                                   /\ c.tp1_percent = 30
                                   /\ c.tp2_percent = 70}
    /\ position = NoPosition
    /\ last = NoCall
    /\ BotIdle

\* the client evaluates one window
CheckLongEntry ==
    \E d \in SignalWindows :
        LET out == check_long_entry(d)
        IN  /\ last = NoCall
            /\ last' = [op |-> "check_long_entry", df |-> d,
                        signal |-> out.signal, details |-> out.details]
            /\ UNCHANGED <<config, position, botVars>>

\* recalculate_with_live_price is called on the details of a triggered signal
RecalculateWithLivePrice ==
    \E live_price \in LivePrices :
        /\ last.op = "check_long_entry"
        /\ last.signal
        /\ last' = [op |-> "recalculate_with_live_price", df |-> last.df,
                    signal |-> last.signal, before |-> last.details,
                    live_price |-> live_price,
                    details |-> recalculate_with_live_price(last.df, last.details,
                                                            live_price)]
        /\ UNCHANGED <<config, position, botVars>>

\* the client evaluates the same window a second time, right away or after the
\* refinement call; `first` keeps what the first call returned
CheckLongEntryAgain ==
    LET out == check_long_entry(last.df)
        refined == last.op = "recalculate_with_live_price"
    IN  /\ last.op \in {"check_long_entry", "recalculate_with_live_price"}
        /\ ~Has(last, "first")
        /\ last' = [op |-> "check_long_entry", df |-> last.df,
                    signal |-> out.signal, details |-> out.details,
                    first |-> [signal |-> last.signal,
                               details |-> IF refined THEN last.before ELSE last.details,
                               calls_between |-> IF refined THEN 1 ELSE 0]]
        /\ UNCHANGED <<config, position, botVars>>

NextSignal == CheckLongEntry \/ RecalculateWithLivePrice \/ CheckLongEntryAgain

SpecSignal == InitSignal /\ [][NextSignal]_vars

(***************************************************************************)
(* Properties of the Signal Evaluator (specification SpecSignal).  `last`  *)
(* holds the window, the returned signal and the returned details.         *)
(***************************************************************************)
\* the last step evaluated a window of at least warmup candles
SufficientCheck ==
    /\ last.op = "check_long_entry"
    /\ last.df.n >= warmup

\* the four conditions, read off the latest candle and the configuration
EmaHolds == last.df.close > last.df.ema_short /\ last.df.ema_short > last.df.ema_long
RsiHolds == config.rsi_min <= last.df.rsi /\ last.df.rsi <= config.rsi_max
AdxHolds == last.df.adx >= config.adx_threshold
VolumeHolds == ~config.use_volume_filter \/ last.df.volume >= last.df.volume_ma

\* C15: with a sufficient window and max_usdt_per_trade > 0, check_long_entry triggers
\* if and only if the EMA, RSI, ADX and volume conditions all hold, and each of the four
\* diagnostic booleans equals its condition.
C15_FourConditions ==
    (SufficientCheck /\ config.max_usdt_per_trade > 0) =>
        /\ last.signal = (EmaHolds /\ RsiHolds /\ AdxHolds /\ VolumeHolds)
        /\ last.details.ema_aligned = EmaHolds
        /\ last.details.rsi_valid = RsiHolds
        /\ last.details.adx_valid = AdxHolds
        /\ last.details.volume_valid = VolumeHolds

\* a trigger with every condition on its threshold
C15_Witness ==
    /\ SufficientCheck
    /\ config.max_usdt_per_trade > 0
    /\ config.use_volume_filter
    /\ last.signal
    /\ last.df.rsi = config.rsi_max
    /\ last.df.adx = config.adx_threshold
    /\ last.df.volume = last.df.volume_ma

\* the last step evaluated a window shorter than one of the indicator periods
ShortCheck ==
    /\ last.op = "check_long_entry"
    /\ \E period \in {ema_long_period, rsi_length, atr_period, volume_ma_period} :
           last.df.n < period

\* C16: for every window shorter than max(ema_long, rsi_length, atr_period,
\* volume_ma_period), check_long_entry returns no signal and details that hold the reason
\* "Insufficient data" and nothing else: no entry legs and no evaluated condition.
C16_InsufficientData ==
    ShortCheck =>
        /\ ~last.signal
        /\ last.details = [reason |-> "Insufficient data"]

\* a window one candle short whose latest candle meets every condition
C16_Witness ==
    /\ ShortCheck
    /\ last.df.n = volume_ma_period
    /\ EmaHolds /\ RsiHolds /\ AdxHolds /\ VolumeHolds
    /\ config.max_usdt_per_trade > 0

\* C17: when all four conditions pass but max_usdt_per_trade <= 0, check_long_entry
\* returns (it does not raise) a rejected signal: no trigger, the configuration-error
\* reason, and no entry legs in the details.
C17_AllocationRejected ==
    (/\ SufficientCheck
     /\ EmaHolds /\ RsiHolds /\ AdxHolds /\ VolumeHolds
     /\ config.max_usdt_per_trade <= 0) =>
        /\ ~last.signal
        /\ last.details.reason = "MAX_USDT_PER_TRADE must be > 0 in .env file"
        /\ ~Has(last.details, "entry_1")
        /\ ~Has(last.details, "entry_2")

\* all four conditions pass with an allocation of 0
C17_Witness ==
    /\ SufficientCheck
    /\ EmaHolds /\ RsiHolds /\ AdxHolds /\ VolumeHolds
    /\ config.max_usdt_per_trade = 0
    /\ ~last.signal

\* the last step evaluated a window and the signal triggered
Triggered ==
    /\ last.op = "check_long_entry"
    /\ last.signal

\* max_usdt_per_trade / close, in size units
MaxPositionSize == (config.max_usdt_per_trade * SizeScale) \div last.df.close

\* C18: on trigger, Entry 1 is priced at ema_short with size (max_usdt_per_trade / close)
\* x entry_1_percent, Entry 2 is priced at ema_long with size (max_usdt_per_trade / close)
\* x entry_2_percent, and both legs carry the stop ema_long - atr x sl_atr_multiplier;
\* for close 150, ema_short 148, ema_long 145, atr 2.5 and multiplier 1.5 (600, 592, 580,
\* 10 in quarters) the prices are 148 and 145 and the stop is 141.25 (565 in quarters).
C18_EntryLegs ==
    Triggered =>
        LET entry_1 == last.details.entry_1
            entry_2 == last.details.entry_2
        IN  /\ entry_1.price = last.df.ema_short
            /\ entry_2.price = last.df.ema_long
            /\ entry_1.position_size * 100 = MaxPositionSize * config.entry_1_percent
            /\ entry_2.position_size * 100 = MaxPositionSize * config.entry_2_percent
            /\ entry_1.stop_loss = entry_2.stop_loss
            /\ entry_1.stop_loss * MultScale =
                   last.df.ema_long * MultScale - last.df.atr * config.sl_atr_multiplier
            /\ (/\ last.df.close = 600 /\ last.df.ema_short = 592
                /\ last.df.ema_long = 580 /\ last.df.atr = 10
                /\ config.sl_atr_multiplier = 15) =>
                   (entry_1.price = 592 /\ entry_2.price = 580 /\ entry_1.stop_loss = 565)

\* the trigger of the worked example
C18_Witness ==
    /\ Triggered
    /\ last.df.close = 600 /\ last.df.ema_short = 592 /\ last.df.ema_long = 580
    /\ last.df.atr = 10
    /\ config.sl_atr_multiplier = 15
    /\ last.details.entry_1.stop_loss = 565

\* C19: on trigger, each leg's take_profit is its own entry price plus (its entry price
\* minus the shared stop) times its risk:reward ratio, tp1_rr for leg 1 and tp2_rr for
\* leg 2, and the leg's risk_reward field is that ratio.
C19_LegTakeProfit ==
    Triggered =>
        LET entry_1 == last.details.entry_1
            entry_2 == last.details.entry_2
        IN  /\ entry_1.take_profit =
                   entry_1.price + (entry_1.price - entry_1.stop_loss) * config.tp1_rr
            /\ entry_2.take_profit =
                   entry_2.price + (entry_2.price - entry_2.stop_loss) * config.tp2_rr
            /\ entry_1.risk_reward = config.tp1_rr
            /\ entry_2.risk_reward = config.tp2_rr

\* a trigger whose second leg has risk to multiply, under ratios that differ
C19_Witness ==
    /\ Triggered
    /\ config.tp1_rr # config.tp2_rr
    /\ last.details.entry_2.price > last.details.entry_2.stop_loss
    /\ last.details.entry_2.take_profit > last.details.entry_2.price

\* C20: the live-price refinement only annotates the decision: for every live price,
\* entry_1 and entry_2 (price, size, stop_loss, take_profit) and the four condition flags
\* are the same after recalculate_with_live_price as before it.
C20_RefinementFrame ==
    last.op = "recalculate_with_live_price" =>
        /\ last.details.entry_1 = last.before.entry_1
        /\ last.details.entry_2 = last.before.entry_2
        /\ last.details.ema_aligned = last.before.ema_aligned
        /\ last.details.rsi_valid = last.before.rsi_valid
        /\ last.details.adx_valid = last.before.adx_valid
        /\ last.details.volume_valid = last.before.volume_valid

\* a refinement with a live price below the first entry level
C20_Witness ==
    /\ last.op = "recalculate_with_live_price"
    /\ last.live_price < last.before.entry_1.price
    /\ last.details.live_price = last.live_price
    /\ last.details.entry_status = "in entry zone"

\* C21: the refinement classifies the live price: at or below ema_short it is in the
\* entry zone, above it by at most 2% it is near the entry zone, further above it is
\* above the entry zone.
C21_EntryZone ==
    last.op = "recalculate_with_live_price" =>
        last.details.entry_status =
            IF last.live_price <= last.df.ema_short THEN "in entry zone"
            ELSE IF last.live_price * 100 <= last.df.ema_short * 102 THEN "near entry zone"
            ELSE "above entry zone"

C23_PnlRoundTrip ==
    (last.op = "calculate_pnl" /\ last.current_price = last.pre.entry_price) =>
        /\ ~last.raised
        /\ last.result.pnl = 0

\* C24: calculate_pnl never fails on a position built by the entry path: it returns a
\* pnl_percent, which is 0 when the risked notional is zero or not available.
C24_PnlNeverFails ==
    last.op = "calculate_pnl" =>
        /\ ~last.raised
        /\ (~Has(last.pre, "risk_amount") => last.result.pnl_percent = 0)

(***************************************************************************)
(* Further properties of one update cycle (specification SpecRM).          *)
(***************************************************************************)
\* C25: update_position on an already fully closed position (remaining_size <= 0) is
\* "no action this cycle": it emits no action and leaves every field of the position
\* unchanged.
C25_ClosedPositionNoAction ==
    (LongCycle /\ last.pre.remaining_size <= 0) =>
        /\ last.action = "none"
        /\ position = last.pre

(***************************************************************************)
(* Further properties of the poll loop (specification Spec).               *)
(***************************************************************************)
\* C26: holding is time-bounded: a position that hits neither a stop nor a target is
\* closed by the poll loop no later than max_candles_hold cycles after entry, that is,
\* once check_exit_by_time says exit the bot holds no position.
C26_TimeBoundedHolding ==
    (Has(cycle, "held") /\ check_exit_by_time(0, cycle.held, config.max_candles_hold)) =>
        current_position = NoPosition

\* C27: the entry_price of the position created from a triggered signal is the
\* size-weighted average of the two legs' prices, and so lies between entry_2.price and
\* entry_1.price.
C27_WeightedEntryPrice ==
    cycle.outcome = "entered" =>
        LET entry_1 == check_long_entry(df).details.entry_1
            entry_2 == check_long_entry(df).details.entry_2
        IN  /\ Has(current_position, "entry_price")
            /\ current_position.entry_price * (entry_1.position_size + entry_2.position_size)
                   = entry_1.price * entry_1.position_size
                         + entry_2.price * entry_2.position_size
            /\ entry_2.price <= current_position.entry_price
            /\ current_position.entry_price <= entry_1.price

(***************************************************************************)
(* Further properties of the update cycle (specification SpecRM)           *)
(***************************************************************************)
\* C28: a cycle that emits stop_loss leaves the position record unchanged:
\* remaining_size, tp1, tp2, their percents, stop_loss and trailing_stop keep their
\* pre-cycle values, even if a take-profit condition holds at that price.
C28_StopLossFrame ==
    (LongCycle /\ last.action = "stop_loss") =>
        /\ position = last.pre
        /\ \A k \in {"remaining_size", "tp1", "tp2", "tp1_percent", "tp2_percent",
                     "stop_loss", "trailing_stop"} : position[k] = last.pre[k]

\* C28 witness: stop_loss is emitted on an open position at a price that also
\* satisfies an armed take-profit
C28_Witness ==
    /\ LongCycle
    /\ last.action = "stop_loss"
    /\ last.pre.remaining_size > 0
    /\ TP1Holds \/ TP2Holds
    /\ position = last.pre

\* C29: in every update cycle the decrease of remaining_size equals the size of the
\* emitted partial exit: position_size * tp1_percent / 100 when tp1 is emitted,
\* position_size * tp2_percent / 100 when tp2 is emitted, and zero for none,
\* stop_loss and trailing_stop.
C29_ReleaseMatchesAction ==
    LongCycle =>
        last.pre.remaining_size - position.remaining_size =
            CASE last.action = "tp1" -> Released(last.pre.tp1_percent)
              [] last.action = "tp2" -> Released(last.pre.tp2_percent)
              [] OTHER -> 0

\* C30: for tp1_percent and tp2_percent each in [0, 100], after every update cycle
\* remaining_size lies within [0, position_size] and is not larger than before the
\* cycle.
C30_RemainingSizeBounded ==
    (/\ LongCycle
     /\ last.pre.tp1_percent \in 0..100
     /\ last.pre.tp2_percent \in 0..100
     /\ last.pre.remaining_size \in 0..last.pre.position_size) =>
        /\ position.remaining_size >= 0
        /\ position.remaining_size <= position.position_size
        /\ position.remaining_size <= last.pre.remaining_size

(***************************************************************************)
(* Properties of the life of one position (specification SpecRM)           *)
(***************************************************************************)
\* C31: for a long position whose stop_loss starts at or below entry_price,
\* stop_loss never decreases: a cycle leaves it where it was while TP1 stays armed,
\* and once TP1 has fired (tp1 is cleared) it equals entry_price in every cycle.
C31_StopNeverDecreases ==
    /\ (LongCycle /\ last.pre.stop_loss <= last.pre.entry_price) =>
           /\ position.stop_loss >= last.pre.stop_loss
           /\ tp1_armed(position) => position.stop_loss = last.pre.stop_loss
           /\ ~tp1_armed(position) => position.stop_loss = position.entry_price
    /\ (position # NoPosition /\ position.side = "long" /\ ~tp1_armed(position)) =>
           position.stop_loss = position.entry_price

\* C31 witness: a cycle after TP1 fired, on a position whose initial stop was below
\* the entry price, keeps the stop at the entry price
C31_Witness ==
    /\ LongCycle
    /\ ~tp1_armed(last.pre)
    /\ Has(last.pre, "risk_distance")
    /\ last.pre.risk_distance > 0
    /\ last.action = "none"
    /\ position.stop_loss = position.entry_price

\* C32: over the life of a position a disarmed take-profit is never armed again by
\* an update cycle, and a cycle emits tp1 (tp2) only when it disarms TP1 (TP2), so
\* that each of tp1 and tp2 is emitted at most once.
C32_TakeProfitNeverRearms ==
    LongCycle =>
        /\ ~tp1_armed(last.pre) => ~tp1_armed(position)
        /\ ~tp2_armed(last.pre) => ~tp2_armed(position)
        /\ last.action = "tp1" => (tp1_armed(last.pre) /\ ~tp1_armed(position))
        /\ last.action = "tp2" => (tp2_armed(last.pre) /\ ~tp2_armed(position))

\* C32 witness: both targets are disarmed and a later cycle at or above the price of
\* the second target emits nothing and arms nothing
C32_Witness ==
    /\ LongCycle
    /\ last.pre.tp1 = None
    /\ last.pre.tp2 = None
    /\ Has(last.pre, "risk_distance")
    /\ last.pre.risk_distance > 0
    /\ last.pre.remaining_size > 0
    /\ last.current_price >= last.pre.entry_price + last.pre.risk_distance * config.tp2_rr
    /\ last.action = "none"
    /\ position.tp1 = None
    /\ position.tp2 = None

C34_NoOrphanEntryOrder ==
    ~config.dry_run =>
        /\ \A i \in 1..Len(orders) :
               orders[i] = "entry2" => (i > 1 /\ orders[i - 1] = "entry1")
        /\ current_position = NoPosition => orders = << >>

\* C35: a polling cycle either updates the open position or evaluates the entry
\* signal, never both: a cycle that starts with a position only manages it (no
\* ticker request, no order, and the position it ends with is the one manage_position
\* leaves, none if it was closed), and a cycle that evaluates the signal starts with
\* no position and records no closure.
C35_ManageXorEntry ==
    [][/\ current_position # NoPosition =>
              /\ cycle'.outcome \in {"fetch_failed", "managed", "manage_raised"}
              /\ ~Has(cycle', "ticker")
              /\ orders' = orders
              /\ cycle'.outcome # "fetch_failed" =>
                     current_position' =
                         manage_position(current_position, trade_history, df').current_position
       /\ current_position = NoPosition =>
              /\ cycle'.outcome \notin {"managed", "manage_raised"}
              /\ trade_history' = trade_history]_vars

\* C35 witness: a cycle managed the open position on a candle that meets every entry
\* condition, and evaluated no entry
C35_Witness ==
    /\ cycle.outcome = "managed"
    /\ ~Has(cycle, "ticker")
    /\ current_position # NoPosition
    /\ check_long_entry(df).signal

C37_LegOrdering ==
    (Triggered /\ last.df.atr >= 0 /\ config.sl_atr_multiplier >= 0) =>
        LET entry_1 == last.details.entry_1
            entry_2 == last.details.entry_2
        IN  /\ entry_1.stop_loss <= entry_2.price
            /\ entry_2.stop_loss <= entry_2.price
            /\ entry_2.price < entry_1.price
            /\ entry_1.price < last.df.close
            /\ entry_1.price - entry_1.stop_loss >= 0
            /\ entry_2.price - entry_2.stop_loss >= 0

\* C37 witness: a trigger with a positive ATR, the stop strictly below the second leg
C37_Witness ==
    /\ Triggered
    /\ last.df.atr > 0
    /\ last.details.entry_2.stop_loss < last.details.entry_2.price
    /\ last.details.entry_2.price < last.details.entry_1.price
    /\ last.details.entry_1.price < last.df.close

\* C38: on every triggered decision with tp2_rr >= tp1_rr > 0 the second target is not
\* below the first: entry_2.take_profit >= entry_1.take_profit.
C38_SecondTargetNotBelowFirst ==
    (Triggered /\ config.tp2_rr >= config.tp1_rr /\ config.tp1_rr > 0) =>
        last.details.entry_2.take_profit >= last.details.entry_1.take_profit

\* the quote amount the two limit legs commit, in quote units times SizeScale
CommittedQuote ==
    last.details.entry_1.price * last.details.entry_1.position_size
        + last.details.entry_2.price * last.details.entry_2.position_size

\* C39: on every triggered decision with entry_1_percent + entry_2_percent <= 100 the
\* quote amount committed by the two limit legs, entry_1.price x entry_1.position_size
\* + entry_2.price x entry_2.position_size, does not exceed max_usdt_per_trade.
C39_CommittedWithinAllocation ==
    (Triggered /\ config.entry_1_percent + config.entry_2_percent <= 100) =>
        CommittedQuote <= config.max_usdt_per_trade * SizeScale

\* C39 witness: a trigger whose two legs commit a positive amount
C39_Witness ==
    /\ Triggered
    /\ config.entry_1_percent + config.entry_2_percent = 100
    /\ last.details.entry_1.position_size > 0
    /\ last.details.entry_2.position_size > 0
    /\ CommittedQuote > 0
    /\ CommittedQuote <= config.max_usdt_per_trade * SizeScale

\* C40: whenever the details returned by check_long_entry carry the 'signal'
\* diagnostic, its value equals the returned triggered boolean.
C40_SignalDiagnostic ==
    (last.op = "check_long_entry" /\ Has(last.details, "signal")) =>
        last.details.signal = last.signal

====
